---- MODULE Spec2Model ----
(***************************************************************************)
(* GreenSpring: a GPIO dashboard server (src/unnamed/part_000).            *)
(*                                                                         *)
(* The server keeps a pin registry (pins), the in-memory config and        *)
(* PinState (config, savedState), two JSON files, a Socket.IO channel and  *)
(* an optional MQTT client.  Every handler runs to completion on the Node  *)
(* event loop, so each handler is one action.                              *)
(*                                                                         *)
(* Strings the code converts (MQTT payloads, direction names) are          *)
(* sequences of one-character strings, so trim/toUpperCase/toLowerCase are *)
(* computed.  Pin labels take no part in any transition and are left out.  *)
(***************************************************************************)
EXTENDS Integers, Sequences, FiniteSets, TLC

\* ------------------------------------------------------------------ bounds
\* how many distinct pin numbers the environment uses
NumPins == 1
\* longest pins array of a config document
MaxConfigLen == 2
\* longest MQTT payload drawn from PayloadAlphabet
MaxPayloadLen == 2
\* README's example config uses GPIO 17 as its first pin
FirstPin == 17

\* the pin numbers that config documents use
PinNumbers == FirstPin..(FirstPin + NumPins - 1)

\* the pin numbers a UI client may ask for: those, and one that is never
\* configured
RequestNumbers == FirstPin..(FirstPin + NumPins)

\* ------------------------------------------------------------- JS strings
Str_ON == <<"O", "N">>
Str_1 == <<"1">>
Str_in == <<"i", "n">>
Str_out == <<"o", "u", "t">>

\* String.prototype.toUpperCase, per character
UpperChar(c) ==
    CASE c = "o" -> "O"
      [] c = "n" -> "N"
      [] c = "f" -> "F"
      [] c = "i" -> "I"
      [] c = "u" -> "U"
      [] c = "t" -> "T"
      [] OTHER -> c

\* String.prototype.toLowerCase, per character
LowerChar(c) ==
    CASE c = "O" -> "o"
      [] c = "N" -> "n"
      [] c = "F" -> "f"
      [] c = "I" -> "i"
      [] c = "U" -> "u"
      [] c = "T" -> "t"
      [] OTHER -> c

toUpperCase(s) == [i \in 1..Len(s) |-> UpperChar(s[i])]

toLowerCase(s) == [i \in 1..Len(s) |-> LowerChar(s[i])]

IsWhitespace(c) == c \in {" ", "\n"}

RECURSIVE TrimStart(_)
TrimStart(s) ==
    IF s # <<>> /\ IsWhitespace(Head(s)) THEN TrimStart(Tail(s)) ELSE s

RECURSIVE TrimEnd(_)
TrimEnd(s) ==
    IF s # <<>> /\ IsWhitespace(s[Len(s)])
    THEN TrimEnd(SubSeq(s, 1, Len(s) - 1))
    ELSE s

\* String.prototype.trim
trim(s) == TrimEnd(TrimStart(s))

\* all sequences over S of length at most n
SeqsUpTo(S, n) == UNION {[1..k -> S] : k \in 0..n}

\* ---------------------------------------------------------------- JS values
\* the values a UI client may send as setPin's "value" (the interface
\* documents value?: 0|1): numbers, booleans, or the field missing
JsNumber(n) == [t |-> "number", num |-> n]

JsBoolean(b) == [t |-> "boolean", bool |-> b]

JsUndefined == [t |-> "undefined"]

UiValues ==
    {JsNumber(n) : n \in -1..2} \cup {JsBoolean(b) : b \in BOOLEAN}
        \cup {JsUndefined}

\* Number(x): [nan, n]
ToNumber(x) ==
    CASE x.t = "number" -> [nan |-> FALSE, n |-> x.num]
      [] x.t = "boolean" -> [nan |-> FALSE, n |-> IF x.bool THEN 1 ELSE 0]
      [] OTHER -> [nan |-> TRUE, n |-> 0]

\* the condition of `num ? 1 : 0` for a JS number: NaN and 0 are falsy
NumberIsTruthy(num) == ~num.nan /\ num.n # 0

\* --------------------------------------------------------------------- state
VARIABLES
    phase,          \* "boot" before the listen callback, "running", "exited",
                    \* "crashed" after an uncaught exception
    mqttClient,     \* TRUE when MQTT_URL is set and a client exists
    config,         \* in-memory config document [pins |-> <<PinSpec>>]
    configFile,     \* content of gpio-config.json
    savedState,     \* in-memory PinState: number -> 0|1, partial
    stateFile,      \* content of gpio-state.json
    pins,           \* runtime pin map: number -> [gpio, meta]
    orphans,        \* Gpio objects replaced in pins and never released (a set:
                    \* two alike count once)
    subscriptions,  \* topics the MQTT client has subscribed to
    ioEmitted,      \* Socket.IO messages emitted by the last event
    mqttPublished,  \* MQTT publishes made by the last event
    gpioWrites,     \* writeSync calls made by the last event
    httpRes,        \* HTTP status answered by the last event, 0 if none
    event,          \* the last event handled
    mqttSubscribed, \* mqttClient.subscribe calls made by the last event
    retained,       \* broker: the retained payload of each pin's state topic
    uiView,         \* what one UI session holds from the messages it received
    fault           \* the driver call that threw during the last event

vars ==
    <<phase, mqttClient, config, configFile, savedState, stateFile, pins,
      orphans, subscriptions, ioEmitted, mqttPublished, gpioWrites, httpRes,
      event, mqttSubscribed, retained, uiView, fault>>

Directions == {"in", "out"}

PinSpecs == [number : PinNumbers, direction : Directions]

\* the config documents the server itself writes (sanitized)
ConfigDocuments == {[pins |-> ps] : ps \in SeqsUpTo(PinSpecs, MaxConfigLen)}

PinStates == UNION {[D -> {0, 1}] : D \in SUBSET PinNumbers}

\* savedState[number] ?? 0
StateOr0(state, number) ==
    IF number \in DOMAIN state THEN state[number] ELSE 0

\* savedState[number] = v
StatePut(state, number, v) ==
    [k \in DOMAIN state \cup {number} |-> IF k = number THEN v ELSE state[k]]

\* ------------------------------------------------------------ the Gpio class
NeverWritten == -1

\* new Gpio(number, direction)
NewGpio(number, direction) ==
    [number |-> number, direction |-> direction, value |-> 0, watchers |-> 0,
     lastWritten |-> NeverWritten]

\* mutant: the write bookkeeping is kept but the level is not driven
writeSync_Lost(gpio, v) == [gpio EXCEPT !.lastWritten = v]

\* mutant: a write of 1 flips the line, as the legacy 'toggle' handler did
writeSync_Toggle(gpio, v) ==
    [gpio EXCEPT !.value = (@ + v) % 2, !.lastWritten = (gpio.value + v) % 2]

\* gpio.writeSync(v): this.value = Number(v)
writeSync(gpio, v) == [gpio EXCEPT !.value = v, !.lastWritten = v]

\* gpio.readSync()
readSync(gpio) == gpio.value

\* gpio.watch(cb)
watch(gpio) == [gpio EXCEPT !.watchers = @ + 1]

\* ---------------------------------------------------------------------- MQTT
MQTT_PREFIX == "home/gpio"

SetTopic(number) == <<MQTT_PREFIX, number, "set">>

StateTopic(number) == <<MQTT_PREFIX, number, "state">>

\* mutant: the state is published without the retain flag
publishMqtt_NotRetained(number, value) ==
    IF ~mqttClient
    THEN <<>>
    ELSE <<[topic |-> StateTopic(number),
            payload |-> IF value # 0 THEN "ON" ELSE "OFF",
            retain |-> FALSE]>>

\* publishMqtt(number, value): the publishes it makes
publishMqtt(number, value) ==
    IF ~mqttClient
    THEN <<>>
    ELSE <<[topic |-> StateTopic(number),
            payload |-> IF value # 0 THEN "ON" ELSE "OFF",
            retain |-> TRUE]>>

\* mutant: the bridge subscribes to nothing
subscribeMqttForPin_Never(number) == <<>>

\* subscribeMqttForPin(number): the subscribe calls it makes
subscribeMqttForPin(number) ==
    IF ~mqttClient THEN <<>> ELSE <<SetTopic(number)>>

\* the topic regexp of the message handler: the pin number, or -1
NoMatch == -1

MatchSetTopic(topic) ==
    IF topic[1] = MQTT_PREFIX /\ topic[3] = "set" THEN topic[2] ELSE NoMatch

\* ------------------------------------------------------------------ registry
\* a direction name as the characters of the JS string
DirectionChars(d) == IF d = "in" THEN Str_in ELSE Str_out

\* (p.direction || 'out').toLowerCase() === 'in' ? 'in' : 'out'
\* (the empty sequence is a missing or empty direction)
NormalizeDirection(raw) ==
    IF toLowerCase(IF raw = <<>> THEN Str_out ELSE raw) = Str_in
    THEN "in"
    ELSE "out"

\* mutant: the rebuild ignores the last-known state
InitialValue_AlwaysZero(state, number) == 0

\* Number(savedState[number] ?? 0) ? 1 : 0
InitialValue(state, number) == IF StateOr0(state, number) # 0 THEN 1 ELSE 0

\* the Gpio objects of the current registry, released by a rebuild's cleanup
\* loop (unwatchAll, unexport) and dropped by pins.clear()
EmptyRegistry == [n \in {} |-> 0]

\* what is left of a Gpio object once pins.set has replaced its entry: no
\* code can reach it any more, but its line stays exported and its watch
\* callbacks stay registered
Unreferenced(gpio) ==
    [number |-> gpio.number, direction |-> gpio.direction,
     watchers |-> gpio.watchers]

\* a driver call that throws during one event: the constructor, writeSync
\* or watch for the PinSpec at position index of the config, or unwatchAll or
\* unexport for the registered pin number index
NoFault == [op |-> "none", index |-> 0]

\* one iteration of the loop `for (const p of config.pins)`; the constructor
\* is called outside any try block, writeSync and watch inside one
SetupOnePin(acc, p, state) ==
    LET number == p.number
        direction == NormalizeDirection(DirectionChars(p.direction))
        throws(op) == acc.fault = [op |-> op, index |-> acc.index]
        gpio0 == NewGpio(number, direction)
        meta == [number |-> number, direction |-> direction]
        initial == InitialValue(state, number)
        gpio == IF direction = "out"
                THEN IF throws("writeSync") THEN gpio0
                     ELSE writeSync(gpio0, initial)
                ELSE IF throws("watch") THEN gpio0 ELSE watch(gpio0)
    IN  IF throws("construct")
        THEN [acc EXCEPT !.thrown = TRUE]
        ELSE
        [pins |-> [k \in DOMAIN acc.pins \cup {number} |->
                      IF k = number THEN [gpio |-> gpio, meta |-> meta]
                      ELSE acc.pins[k]],
         orphans |-> IF number \in DOMAIN acc.pins
                     THEN acc.orphans
                              \cup {Unreferenced(acc.pins[number].gpio)}
                     ELSE acc.orphans,
         writes |-> IF direction = "out"
                    THEN Append(acc.writes,
                                [index |-> acc.index, number |-> number,
                                 value |-> initial])
                    ELSE acc.writes,
         published |-> IF direction = "out"
                       THEN acc.published \o publishMqtt(number, initial)
                       ELSE acc.published,
         subscribed |-> acc.subscribed \o subscribeMqttForPin(number),
         index |-> acc.index + 1,
         fault |-> acc.fault,
         thrown |-> FALSE]

\* the loop stops at the iteration that throws
RECURSIVE SetupLoop(_, _, _)
SetupLoop(acc, specs, state) ==
    IF specs = <<>> \/ acc.thrown
    THEN acc
    ELSE SetupLoop(SetupOnePin(acc, Head(specs), state), Tail(specs), state)

\* the cleanup loop `try { gpio.unwatchAll(); gpio.unexport(); } catch {}`:
\* the Gpio objects it leaves unreleased when one of the two calls throws
CleanupLeftovers(registry, flt) ==
    {Unreferenced(IF flt.op = "unwatchAll" THEN registry[n].gpio
                  ELSE [registry[n].gpio EXCEPT !.watchers = 0]) :
        n \in {k \in DOMAIN registry :
                  flt.op \in {"unwatchAll", "unexport"} /\ flt.index = k}}

\* mutant: the snapshot covers only the 'out' entries
getCurrentState_OutOnly(registry) ==
    [n \in {k \in DOMAIN registry : registry[k].meta.direction = "out"} |->
        readSync(registry[n].gpio)]

\* getCurrentState(): number -> Number(gpio.readSync()) over the whole map
getCurrentState(registry) ==
    [n \in DOMAIN registry |-> readSync(registry[n].gpio)]

InitMessage(cfg, registry) ==
    [type |-> "init", config |-> cfg, state |-> getCurrentState(registry)]

PinMessage(number, value) ==
    [type |-> "pin", number |-> number, value |-> value]

\* setupPins() in which the driver call flt throws: the registry, the
\* unreleased objects and the traffic it leaves; thrown when the exception
\* leaves setupPins, which then has not reached broadcastFullState()
setupPinsWith(cfg, state, oldOrphans, flt) ==
    CHOOSE r \in
        {[pins |-> done.pins,
          orphans |-> done.orphans,
          writes |-> done.writes,
          published |-> done.published,
          subscribed |-> done.subscribed,
          emitted |-> IF done.thrown THEN <<>>
                      ELSE <<InitMessage(cfg, done.pins)>>,
          thrown |-> done.thrown] :
            done \in {SetupLoop([pins |-> EmptyRegistry,
                                 orphans |-> oldOrphans
                                     \cup CleanupLeftovers(pins, flt),
                                 writes |-> <<>>,
                                 published |-> <<>>, subscribed |-> <<>>,
                                 index |-> 1, fault |-> flt,
                                 thrown |-> FALSE],
                                cfg.pins, state)}} : TRUE

\* setupPins() with a driver that does not throw
setupPins(cfg, state, oldOrphans) ==
    setupPinsWith(cfg, state, oldOrphans, NoFault)

\* the elements of a sequence
Range(seq) == {seq[i] : i \in 1..Len(seq)}

\* the broker keeps the last retained payload published on each state topic
RECURSIVE Retain(_, _)
Retain(ret, published) ==
    IF published = <<>>
    THEN ret
    ELSE Retain([n \in DOMAIN ret \cup {Head(published).topic[2]} |->
                    IF n = Head(published).topic[2]
                    THEN Head(published).payload
                    ELSE ret[n]],
                Tail(published))

\* a UI session that has not connected
NoView ==
    [connected |-> FALSE, config |-> [pins |-> <<>>], state |-> EmptyRegistry]

\* a UI session takes an 'init' message as its new config and state, and a
\* 'pin' message as the new value of one pin
RECURSIVE Receive(_, _)
Receive(view, messages) ==
    IF messages = <<>> \/ ~view.connected
    THEN view
    ELSE Receive(
            IF Head(messages).type = "init"
            THEN [view EXCEPT !.config = Head(messages).config,
                              !.state = Head(messages).state]
            ELSE [view EXCEPT !.state =
                     [n \in DOMAIN view.state \cup {Head(messages).number} |->
                         IF n = Head(messages).number
                         THEN Head(messages).value
                         ELSE view.state[n]]],
            Tail(messages))

NoEvent == [kind |-> "none", number |-> 0, value |-> 0, applied |-> FALSE]

\* the record of the event just handled: which handler ran, for which pin
\* number, whether it passed the registry checks and with which value
Event(kind, number, value, applied) ==
    [kind |-> kind, number |-> number, value |-> value, applied |-> applied]

\* --------------------------------------------------------------------- Init
\* module load: config and savedState come from the two files (lines 91-92),
\* the pin map is empty until the listen callback runs
Init ==
    /\ phase = "boot"
    /\ mqttClient \in BOOLEAN
    /\ config \in ConfigDocuments
    /\ configFile = config
    /\ savedState \in PinStates
    /\ stateFile = savedState
    /\ pins = EmptyRegistry
    /\ orphans = {}
    /\ subscriptions = {}
    /\ ioEmitted = <<>>
    /\ mqttPublished = <<>>
    /\ gpioWrites = <<>>
    /\ httpRes = 0
    /\ event = NoEvent
    /\ mqttSubscribed = <<>>
    /\ retained = EmptyRegistry
    /\ uiView = NoView
    /\ fault = NoFault

\* ------------------------------------------------------------------ actions
\* what the traffic of the event leaves at the broker and at the UI session
Delivered ==
    /\ retained' = Retain(retained, mqttPublished')
    /\ uiView' = Receive(uiView, ioEmitted')

\* the driver call flt can throw while setupPins() builds the registry of cfg
FaultApplies(flt, cfg) ==
    CASE flt.op = "none" -> TRUE
      [] flt.op = "construct" -> flt.index \in 1..Len(cfg.pins)
      [] flt.op = "writeSync" ->
            /\ flt.index \in 1..Len(cfg.pins)
            /\ cfg.pins[flt.index].direction = "out"
      [] flt.op = "watch" ->
            /\ flt.index \in 1..Len(cfg.pins)
            /\ cfg.pins[flt.index].direction = "in"
      [] OTHER -> flt.index \in DOMAIN pins

\* server.listen callback: setupPins(); an exception that leaves setupPins()
\* is uncaught and ends the process
ListenCallback(flt) ==
    /\ phase = "boot"
    /\ FaultApplies(flt, config)
    /\ \E r \in {setupPinsWith(config, savedState, orphans, flt)} :
        /\ pins' = r.pins
        /\ orphans' = r.orphans
        /\ subscriptions' = subscriptions \cup Range(r.subscribed)
        /\ mqttSubscribed' = r.subscribed
        /\ ioEmitted' = r.emitted
        /\ mqttPublished' = r.published
        /\ gpioWrites' = r.writes
        /\ phase' = IF r.thrown THEN "crashed" ELSE "running"
    /\ httpRes' = 0
    /\ event' = Event("startup", 0, 0, FALSE)
    /\ fault' = flt
    /\ Delivered
    /\ UNCHANGED <<mqttClient, config, configFile, savedState, stateFile>>

Startup == ListenCallback(NoFault)

\* writeJsonSafe(file, data): the file afterwards; ok = FALSE when
\* fs.writeFileSync throws (a handler that writes no file runs with ok only)
writeJsonSafe(file, data, ok) == IF ok THEN data ELSE file

\* what a handler that returns early leaves behind: nothing written,
\* emitted or published
Returned ==
    [applied |-> FALSE, v |-> 0, pins |-> pins, savedState |-> savedState,
     stateFile |-> stateFile, writes |-> <<>>, emitted |-> <<>>,
     published |-> <<>>]

\* mutant: the value is passed on as a number, not coerced to 0 or 1
SetPinValue_Uncoerced(value) == ToNumber(value).n

\* const v = Number(value) ? 1 : 0
SetPinValue(value) == IF NumberIsTruthy(ToNumber(value)) THEN 1 ELSE 0

\* mutant: the direction check of line 218 is missing
setPinHandler_NoDirectionCheck(number, value, ok) ==
    IF number \notin DOMAIN pins
    THEN Returned
    ELSE CHOOSE r \in
        {[applied |-> TRUE,
          v |-> v,
          pins |-> [pins EXCEPT ![number].gpio = writeSync(@, v)],
          savedState |-> StatePut(savedState, pins[number].meta.number, v),
          stateFile |-> writeJsonSafe(stateFile,
                           StatePut(savedState, pins[number].meta.number, v),
                           ok),
          writes |-> <<[index |-> 1, number |-> number, value |-> v]>>,
          emitted |-> <<PinMessage(pins[number].meta.number, v)>>,
          published |-> publishMqtt(pins[number].meta.number, v)] :
            v \in {SetPinValue(value)}} : TRUE

\* mutant: the state-file write is not in a try block, so its exception ends
\* the handler before io.emit and publishMqtt
setPinHandler_SaveUncaught(number, value, ok) ==
    IF number \notin DOMAIN pins
    THEN Returned
    ELSE IF pins[number].meta.direction # "out"
    THEN Returned
    ELSE [setPinHandler_NoDirectionCheck(number, value, ok) EXCEPT
             !.emitted = IF ok THEN @ ELSE <<>>,
             !.published = IF ok THEN @ ELSE <<>>]

\* socket.on('setPin', ({ number, value }) => ...): the state and the
\* traffic the handler leaves
setPinHandler(number, value, ok) ==
    IF number \notin DOMAIN pins
    THEN Returned
    ELSE IF pins[number].meta.direction # "out"
    THEN Returned
    ELSE CHOOSE r \in
        {[applied |-> TRUE,
          v |-> v,
          pins |-> [pins EXCEPT ![number].gpio = writeSync(@, v)],
          savedState |-> StatePut(savedState, pins[number].meta.number, v),
          stateFile |-> writeJsonSafe(stateFile,
                           StatePut(savedState, pins[number].meta.number, v),
                           ok),
          writes |-> <<[index |-> 1, number |-> number, value |-> v]>>,
          emitted |-> <<PinMessage(pins[number].meta.number, v)>>,
          published |-> publishMqtt(pins[number].meta.number, v)] :
            v \in {SetPinValue(value)}} : TRUE

SetPin(number, value, ok) ==
    /\ phase = "running"
    /\ \E r \in {setPinHandler(number, value, ok)} :
        /\ ~ok => r.applied
        /\ pins' = r.pins
        /\ savedState' = r.savedState
        /\ stateFile' = r.stateFile
        /\ gpioWrites' = r.writes
        /\ ioEmitted' = r.emitted
        /\ mqttPublished' = r.published
        /\ event' = Event("setPin", number, r.v, r.applied)
    /\ httpRes' = 0
    /\ mqttSubscribed' = <<>>
    /\ fault' = NoFault
    /\ Delivered
    /\ UNCHANGED <<phase, mqttClient, config, configFile, orphans,
                   subscriptions>>

\* mutant: only the exact payload 'ON' switches on, as in the legacy server
PayloadValue_ExactOn(payload) == IF payload = Str_ON THEN 1 ELSE 0

\* const v = s === 'ON' || s === '1' ? 1 : 0, with
\* s = payload.toString().trim().toUpperCase()
PayloadValue(payload) ==
    IF toUpperCase(trim(payload)) \in {Str_ON, Str_1} THEN 1 ELSE 0

\* mutant: a change that came from MQTT is not published back
mqttMessageHandler_NoEcho(topic, payload, ok) ==
    IF MatchSetTopic(topic) = NoMatch
    THEN Returned
    ELSE IF MatchSetTopic(topic) \notin DOMAIN pins
    THEN Returned
    ELSE IF pins[MatchSetTopic(topic)].meta.direction # "out"
    THEN Returned
    ELSE CHOOSE r \in
        {[applied |-> TRUE,
          v |-> v,
          pins |-> [pins EXCEPT ![number].gpio = writeSync(@, v)],
          savedState |-> StatePut(savedState, number, v),
          stateFile |-> writeJsonSafe(stateFile,
                                      StatePut(savedState, number, v), ok),
          writes |-> <<[index |-> 1, number |-> number, value |-> v]>>,
          emitted |-> <<PinMessage(number, v)>>,
          published |-> <<>>] :
            number \in {MatchSetTopic(topic)},
            v \in {PayloadValue(payload)}} :
        TRUE

\* mqttClient.on('message', (topic, payload) => ...): the state and the
\* traffic the handler leaves
mqttMessageHandler(topic, payload, ok) ==
    IF MatchSetTopic(topic) = NoMatch
    THEN Returned
    ELSE IF MatchSetTopic(topic) \notin DOMAIN pins
    THEN Returned
    ELSE IF pins[MatchSetTopic(topic)].meta.direction # "out"
    THEN Returned
    ELSE CHOOSE r \in
        {[applied |-> TRUE,
          v |-> v,
          pins |-> [pins EXCEPT ![number].gpio = writeSync(@, v)],
          savedState |-> StatePut(savedState, number, v),
          stateFile |-> writeJsonSafe(stateFile,
                                      StatePut(savedState, number, v), ok),
          writes |-> <<[index |-> 1, number |-> number, value |-> v]>>,
          emitted |-> <<PinMessage(number, v)>>,
          published |-> publishMqtt(number, v)] :
            number \in {MatchSetTopic(topic)}, v \in {PayloadValue(payload)}} :
        TRUE

\* the broker delivers only on subscribed topics
MqttMessage(topic, payload, ok) ==
    /\ phase = "running"
    /\ mqttClient
    /\ topic \in subscriptions
    /\ \E r \in {mqttMessageHandler(topic, payload, ok)} :
        /\ ~ok => r.applied
        /\ pins' = r.pins
        /\ savedState' = r.savedState
        /\ stateFile' = r.stateFile
        /\ gpioWrites' = r.writes
        /\ ioEmitted' = r.emitted
        /\ mqttPublished' = r.published
        /\ event' = Event("mqttSet", MatchSetTopic(topic), r.v, r.applied)
    /\ httpRes' = 0
    /\ mqttSubscribed' = <<>>
    /\ fault' = NoFault
    /\ Delivered
    /\ UNCHANGED <<phase, mqttClient, config, configFile, orphans,
                   subscriptions>>

\* newConfig.pins.map(p => ({ number, label, direction })): the sanitize step
SanitizePins(rawPins) ==
    [i \in 1..Len(rawPins) |->
        [number |-> rawPins[i].number,
         direction |-> NormalizeDirection(rawPins[i].direction)]]

\* mutant: only the presence of 'pins' is checked, not that it is an array
IsInvalidBody_PresenceOnly(body) == body.shape \in {"null", "noPins"}

\* !newConfig || !Array.isArray(newConfig.pins)
IsInvalidBody(body) == body.shape # "pinsArray"

\* mutant: a failed save puts the previous config back
ConfigAfterPost_RolledBack(old, new, ok) == IF ok THEN new ELSE old

\* config = newConfig, assigned before the file is written
ConfigAfterPost(old, new, ok) == new

\* app.post('/api/config', ...); an exception that leaves setupPins() goes to
\* express, which answers 500
ConfigPostWith(body, ok, flt) ==
    /\ phase = "running"
    /\ ~ok => ~IsInvalidBody(body)
    /\ IF IsInvalidBody(body)
       THEN /\ flt = NoFault
            /\ httpRes' = 400
            /\ ioEmitted' = <<>>
            /\ mqttPublished' = <<>>
            /\ mqttSubscribed' = <<>>
            /\ gpioWrites' = <<>>
            /\ UNCHANGED <<config, configFile, pins, orphans, subscriptions>>
       ELSE \E newConfig \in {[pins |-> SanitizePins(body.pins)]} :
                /\ FaultApplies(flt, newConfig)
                /\ ~ok => flt = NoFault
                /\ config' = ConfigAfterPost(config, newConfig, ok)
                /\ configFile' = writeJsonSafe(configFile, newConfig, ok)
                /\ IF ~ok
                   THEN /\ httpRes' = 500
                        /\ ioEmitted' = <<>>
                        /\ mqttPublished' = <<>>
                        /\ mqttSubscribed' = <<>>
                        /\ gpioWrites' = <<>>
                        /\ UNCHANGED <<pins, orphans, subscriptions>>
                   ELSE \E r \in {setupPinsWith(newConfig, savedState,
                                                orphans, flt)} :
                        /\ pins' = r.pins
                        /\ orphans' = r.orphans
                        /\ subscriptions' =
                               subscriptions \cup Range(r.subscribed)
                        /\ mqttSubscribed' = r.subscribed
                        /\ ioEmitted' = r.emitted
                        /\ mqttPublished' = r.published
                        /\ gpioWrites' = r.writes
                        /\ httpRes' = IF r.thrown THEN 500 ELSE 200
    /\ event' = Event("configPost", 0, 0, FALSE)
    /\ fault' = flt
    /\ Delivered
    /\ UNCHANGED <<phase, mqttClient, savedState, stateFile>>

ConfigPost(body, ok) == ConfigPostWith(body, ok, NoFault)

\* the gpio.watch callback of an input pin, run by the driver when the line
\* changes level: io.emit('pin', ...) and publishMqtt
InputChange(number, value) ==
    /\ phase = "running"
    /\ number \in DOMAIN pins
    /\ pins[number].gpio.watchers > 0
    /\ pins[number].gpio.value # value
    /\ pins' = [pins EXCEPT ![number].gpio.value = value]
    /\ ioEmitted' = <<PinMessage(number, value)>>
    /\ mqttPublished' = publishMqtt(number, value)
    /\ mqttSubscribed' = <<>>
    /\ gpioWrites' = <<>>
    /\ httpRes' = 0
    /\ event' = Event("input", number, value, FALSE)
    /\ fault' = NoFault
    /\ Delivered
    /\ UNCHANGED <<phase, mqttClient, config, configFile, savedState,
                   stateFile, orphans, subscriptions>>

\* the same callback on a Gpio object that a later pins.set replaced: the
\* object was never unwatched, so the driver still runs its callback.  Two
\* Gpio objects of one number are the same line: the callback reports the
\* level the registered object of that number has, or any level when the
\* number is no longer registered
OrphanInputChange(number, value) ==
    /\ phase = "running"
    /\ \E o \in orphans : o.number = number /\ o.watchers > 0
    /\ number \in DOMAIN pins => value = pins[number].gpio.value
    /\ ioEmitted' = <<PinMessage(number, value)>>
    /\ mqttPublished' = publishMqtt(number, value)
    /\ mqttSubscribed' = <<>>
    /\ gpioWrites' = <<>>
    /\ httpRes' = 0
    /\ event' = Event("orphanInput", number, value, FALSE)
    /\ fault' = NoFault
    /\ Delivered
    /\ UNCHANGED <<phase, mqttClient, config, configFile, savedState,
                   stateFile, pins, orphans, subscriptions>>

\* io.on('connection'): socket.emit('init', { config, state }) to the new
\* session only
Connection ==
    /\ phase = "running"
    /\ ~uiView.connected
    /\ uiView' = [connected |-> TRUE, config |-> config,
                  state |-> getCurrentState(pins)]
    /\ ioEmitted' = <<>>
    /\ mqttPublished' = <<>>
    /\ mqttSubscribed' = <<>>
    /\ gpioWrites' = <<>>
    /\ httpRes' = 0
    /\ event' = Event("connection", 0, 0, FALSE)
    /\ fault' = NoFault
    /\ UNCHANGED <<phase, mqttClient, config, configFile, savedState,
                   stateFile, pins, orphans, subscriptions, retained>>

\* process.on('SIGINT'): release every registered Gpio, then exit
Sigint ==
    /\ phase = "running"
    /\ phase' = "exited"
    /\ pins' = EmptyRegistry
    /\ ioEmitted' = <<>>
    /\ mqttPublished' = <<>>
    /\ mqttSubscribed' = <<>>
    /\ gpioWrites' = <<>>
    /\ httpRes' = 0
    /\ event' = Event("sigint", 0, 0, FALSE)
    /\ fault' = NoFault
    /\ UNCHANGED <<mqttClient, config, configFile, savedState, stateFile,
                   orphans, subscriptions, retained, uiView>>

\* ----------------------------------------------------------------- inputs
PayloadAlphabet == {"O", "N", "o", "1", " "}

Payloads ==
    SeqsUpTo(PayloadAlphabet, MaxPayloadLen)
        \cup {<<"o", "n">>, <<"O", "n">>, <<"O", "F", "F">>, <<"o", "f", "f">>,
              <<"0">>, <<" ", "o", "n", "\n">>, <<"O", " ", "N">>}

RawDirections == {<<>>, Str_in, <<"I", "N">>, Str_out, <<"i", "n", " ">>}

RawPinSpecs == [number : PinNumbers, direction : RawDirections]

Bodies ==
    {[shape |-> s, pins |-> <<>>] :
        s \in {"null", "noPins", "pinsString", "pinsObject"}}
    \cup {[shape |-> "pinsArray", pins |-> ps] :
            ps \in SeqsUpTo(RawPinSpecs, MaxConfigLen)}

Topics == {SetTopic(n) : n \in PinNumbers}

\* ------------------------------------------------------------ specifications
UiSetPin == \E n \in RequestNumbers, v \in UiValues : SetPin(n, v, TRUE)

MqttSet == \E t \in Topics, p \in Payloads : MqttMessage(t, p, TRUE)

PostConfig == \E b \in Bodies : ConfigPost(b, TRUE)

InputEdge == \E n \in PinNumbers, v \in {0, 1} : InputChange(n, v)

OrphanInputEdge ==
    \E n \in PinNumbers, v \in {0, 1} : OrphanInputChange(n, v)

\* the server without UI sessions
NextServer ==
    \/ Startup
    \/ UiSetPin
    \/ MqttSet
    \/ PostConfig
    \/ InputEdge
    \/ OrphanInputEdge
    \/ Sigint

Next ==
    \/ NextServer
    \/ Connection

\* every file write succeeds and no driver call throws
Spec == Init /\ [][Next]_vars

UiSetPinDiskFails ==
    \E n \in RequestNumbers, v \in UiValues : SetPin(n, v, FALSE)

MqttSetDiskFails == \E t \in Topics, p \in Payloads : MqttMessage(t, p, FALSE)

PostConfigDiskFails == \E b \in Bodies : ConfigPost(b, FALSE)

NextFaults ==
    \/ NextServer
    \/ UiSetPinDiskFails
    \/ MqttSetDiskFails
    \/ PostConfigDiskFails

\* fs.writeFileSync may throw
SpecFaults == Init /\ [][NextFaults]_vars

NextConfigFaults ==
    \/ NextServer
    \/ PostConfigDiskFails

\* fs.writeFileSync may throw when it writes gpio-config.json
SpecConfigFaults == Init /\ [][NextConfigFaults]_vars

\* UI sessions on their own, with a config file that may fail to be written:
\* a session connects, sets pins and posts configs
NextUiConfigFaults ==
    \/ Startup
    \/ Connection
    \/ UiSetPin
    \/ PostConfig
    \/ PostConfigDiskFails

SpecUiConfigFaults == Init /\ [][NextUiConfigFaults]_vars

\* the driver calls of a rebuild that may throw
DriverFaults ==
    [op : {"construct", "writeSync", "watch"}, index : 1..MaxConfigLen]
        \cup [op : {"unwatchAll", "unexport"}, index : PinNumbers]

StartupDriverFails == \E f \in DriverFaults : ListenCallback(f)

PostConfigDriverFails ==
    \E b \in Bodies, f \in DriverFaults : ConfigPostWith(b, TRUE, f)

NextDriverFaults ==
    \/ NextServer
    \/ StartupDriverFails
    \/ PostConfigDriverFails

\* the Gpio driver may throw during a rebuild (onoff on real hardware)
SpecDriverFaults == Init /\ [][NextDriverFaults]_vars

\* ------------------------------------------------------------------ claims
\* an output request that passed both registry checks
OutputApplied(e) == e.kind \in {"setPin", "mqttSet"} /\ e.applied

\* a registry rebuild has just completed (listen callback or accepted POST)
Rebuilt ==
    \/ event.kind = "startup"
    \/ event.kind = "configPost" /\ httpRes = 200

IsOutPin(n) == n \in DOMAIN pins /\ pins[n].meta.direction = "out"

\* coerce(v) as the interface describes it: 1 for a truthy, non-zero value
Coerce(value) ==
    CASE value.t = "number" -> IF value.num # 0 THEN 1 ELSE 0
      [] value.t = "boolean" -> IF value.bool THEN 1 ELSE 0
      [] OTHER -> 0

\* the result r of a handler: the adapter of n reads c, the state document
\* maps n to c, and the one delta {number: n, value: c} was broadcast
OutputTookEffect(r, n, c) ==
    /\ r.applied
    /\ n \in DOMAIN r.pins
    /\ readSync(r.pins[n].gpio) = c
    /\ n \in DOMAIN r.stateFile
    /\ r.stateFile[n] = c
    /\ r.emitted = <<[type |-> "pin", number |-> n, value |-> c]>>

C2_IgnoredOutputChangesNothing ==
    [][(/\ event'.kind \in {"setPin", "mqttSet"}
        /\ ~IsOutPin(event'.number))
       => /\ gpioWrites' = <<>>
          /\ pins' = pins
          /\ savedState' = savedState
          /\ stateFile' = stateFile
          /\ ioEmitted' = <<>>
          /\ mqttPublished' = <<>>]_vars

C2_Witness ==
    /\ event.kind = "setPin"
    /\ ~event.applied
    /\ event.number \notin DOMAIN pins
    /\ \E n \in DOMAIN pins : pins[n].meta.direction = "out"

\* the other two ignored cases: an MQTT set for a number no longer in the
\* registry, and a setPin for an 'in' pin
C2_WitnessMqttUnregistered ==
    /\ event.kind = "mqttSet"
    /\ ~event.applied
    /\ event.number \notin DOMAIN pins

C2_WitnessInputPin ==
    /\ event.kind = "setPin"
    /\ ~event.applied
    /\ event.number \in DOMAIN pins
    /\ pins[event.number].meta.direction = "in"

\* the numbers of a config document's pins, and of its 'out' pins
ConfigNumbers(cfg) == {cfg.pins[i].number : i \in 1..Len(cfg.pins)}

OutNumbers(cfg) ==
    {cfg.pins[i].number :
        i \in {j \in 1..Len(cfg.pins) : cfg.pins[j].direction = "out"}}

\* the direction of the last PinSpec of cfg with number n
LastDirection(cfg, n) ==
    cfg.pins[CHOOSE i \in 1..Len(cfg.pins) :
                /\ cfg.pins[i].number = n
                /\ \A j \in (i + 1)..Len(cfg.pins) : cfg.pins[j].number # n
            ].direction

\* C3 as claimed: after a rebuild the snapshot's state mapping has exactly
\* the numbers of the 'out' pins of the document as keys, each with the prior
\* PinState value (0 if none)
C3_SnapshotKeysAreOutPins ==
    Rebuilt =>
        /\ DOMAIN getCurrentState(pins) = OutNumbers(config)
        /\ \A n \in DOMAIN getCurrentState(pins) :
            getCurrentState(pins)[n] = StateOr0(savedState, n)

\* C3 amended: after a rebuild the snapshot's state mapping has the numbers
\* of all pins of the document as keys, 'in' pins included; a key whose last
\* PinSpec in the document is 'out' has the prior PinState value (0 if none)
C3_SnapshotKeysAreAllPins ==
    Rebuilt =>
        /\ ioEmitted[Len(ioEmitted)].state = getCurrentState(pins)
        /\ DOMAIN getCurrentState(pins) = ConfigNumbers(config)
        /\ \A n \in DOMAIN getCurrentState(pins) :
            LastDirection(config, n) = "out" =>
                getCurrentState(pins)[n] = StateOr0(savedState, n)

C3_Witness ==
    /\ event.kind = "configPost"
    /\ httpRes = 200
    /\ \E n \in DOMAIN getCurrentState(pins) :
        /\ pins[n].meta.direction = "in"
        /\ n \in DOMAIN savedState
        /\ savedState[n] = 1

\* the 'out' case: a pin listed twice, last as 'out', restored to 1
C3_WitnessOutPin ==
    /\ Rebuilt
    /\ Len(config.pins) = 2
    /\ \E n \in DOMAIN getCurrentState(pins) :
        /\ LastDirection(config, n) = "out"
        /\ getCurrentState(pins)[n] = 1

\* the positions of the 'out' PinSpecs of a config document
OutPositions(cfg) == {i \in 1..Len(cfg.pins) : cfg.pins[i].direction = "out"}

\* the rebuild wrote, to the adapter it built for each 'out' PinSpec, the
\* last-known value of that number, and nothing else
RebuildWrotePriorValues ==
    /\ Len(gpioWrites) = Cardinality(OutPositions(config))
    /\ \A i \in OutPositions(config) :
        \E k \in 1..Len(gpioWrites) :
            gpioWrites[k] = [index |-> i, number |-> config.pins[i].number,
                             value |-> StateOr0(savedState,
                                                config.pins[i].number)]

\* one retained publish per write, on <prefix>/<number>/state, ON for 1
RebuildPublishedWrites ==
    /\ Len(mqttPublished) = Len(gpioWrites)
    /\ \A k \in 1..Len(gpioWrites) :
        mqttPublished[k] =
            [topic |-> <<MQTT_PREFIX, gpioWrites[k].number, "state">>,
             payload |-> IF gpioWrites[k].value = 1 THEN "ON" ELSE "OFF",
             retain |-> TRUE]

RebuildEmittedOneSnapshot ==
    /\ Len(ioEmitted) = 1
    /\ ioEmitted[1].type = "init"

\* C4 as claimed: every rebuild writes each 'out' pin's last-known value to
\* its new adapter, publishes that value retained on <prefix>/<number>/state
\* and then emits exactly one snapshot
C4_RebuildRestoresAndPublishes ==
    Rebuilt =>
        /\ RebuildWrotePriorValues
        /\ RebuildPublishedWrites
        /\ RebuildEmittedOneSnapshot

\* C4 amended: the publishes are made when the MQTT bridge is enabled; with
\* no MQTT client the rebuild writes and emits the same and publishes nothing
C4_RebuildRestoresAndPublishesIfBridged ==
    Rebuilt =>
        /\ RebuildWrotePriorValues
        /\ mqttClient => RebuildPublishedWrites
        /\ ~mqttClient => mqttPublished = <<>>
        /\ RebuildEmittedOneSnapshot

C4_Witness ==
    /\ Rebuilt
    /\ mqttClient
    /\ config = [pins |-> <<[number |-> FirstPin, direction |-> "out"]>>]
    /\ savedState = [n \in {FirstPin} |-> 1]
    /\ readSync(pins[FirstPin].gpio) = 1
    /\ mqttPublished[1].payload = "ON"

\* C5: on an 'out' pin, an MQTT set whose payload maps to v leaves what a UI
\* setPin {number, value: v} leaves from the same state: the same adapters,
\* in-memory and persisted PinState, delta and retained publish
C5_MqttSetEqualsUiSetPin ==
    (phase = "running" /\ mqttClient) =>
        \A n \in PinNumbers :
            IsOutPin(n) =>
                \A p \in Payloads :
                    \E m \in {mqttMessageHandler(SetTopic(n), p, TRUE)} :
                    \E u \in {setPinHandler(n, JsNumber(PayloadValue(p)),
                                            TRUE)} :
                        /\ m.applied /\ u.applied
                        /\ m.pins = u.pins
                        /\ m.savedState = u.savedState
                        /\ m.stateFile = u.stateFile
                        /\ m.emitted = u.emitted
                        /\ m.published = u.published
                        /\ m.published # <<>>

C5_Witness ==
    /\ event.kind = "mqttSet"
    /\ event.applied
    /\ Len(mqttPublished) = 1
    /\ mqttPublished[1].payload = "OFF"
    /\ Len(ioEmitted) = 1

\* C6: applying to an 'out' pin the value that was just applied to it
\* leaves the adapters and the in-memory and persisted PinState as the first
\* application left them, and each of the two calls broadcasts the one delta
\* {n, value}
C6_SecondApplicationChangesNothing ==
    OutputApplied(event) =>
        \A v \in {x \in UiValues : Coerce(x) = event.value} :
            \E first \in {[type |-> "pin", number |-> event.number,
                           value |-> event.value]} :
            \E second \in {setPinHandler(event.number, v, TRUE)} :
                /\ ioEmitted = <<first>>
                /\ second.applied
                /\ second.emitted = <<first>>
                /\ second.pins = pins
                /\ second.savedState = savedState
                /\ second.stateFile = stateFile

C6_Witness ==
    /\ event.kind = "setPin"
    /\ event.applied
    /\ event.value = 1
    /\ stateFile = savedState
    /\ Cardinality(DOMAIN savedState) = NumPins

\* 'ON' ignoring letter case, or '1'
SaysOn(payload) == toLowerCase(payload) = <<"o", "n">> \/ payload = <<"1">>

InvalidBodies == {b \in Bodies : b.shape \in {"null", "noPins", "pinsString",
                                             "pinsObject"}}

\* C8: a config POST whose body has no 'pins' or a 'pins' that is not an
\* array is answered 400 and changes neither the in-memory config, the
\* registry, the PinState nor either file, and broadcasts nothing
C8_InvalidPostChangesNothing ==
    [][event'.kind = "configPost" =>
        \A b \in InvalidBodies :
            ConfigPost(b, TRUE) =>
                /\ httpRes' = 400
                /\ config' = config
                /\ configFile' = configFile
                /\ pins' = pins
                /\ orphans' = orphans
                /\ savedState' = savedState
                /\ stateFile' = stateFile
                /\ ioEmitted' = <<>>]_vars

C8_Witness ==
    /\ event.kind = "configPost"
    /\ httpRes = 400
    /\ DOMAIN pins # {}
    /\ config.pins # <<>>

\* C9 as claimed: after every completed event every registry entry's number
\* matches exactly one PinSpec of the in-memory config
C9_RegistryMatchesOnePinSpec ==
    phase = "running" =>
        \A n \in DOMAIN pins :
            Cardinality({i \in 1..Len(config.pins) :
                            config.pins[i].number = n}) = 1

EntryChanges(doc, n) ==
    \/ (n \in DOMAIN doc) # (n \in DOMAIN doc')
    \/ n \in DOMAIN doc /\ n \in DOMAIN doc' /\ doc[n] # doc'[n]

\* C11: in every step that changes the entry of a pin number in the
\* in-memory PinState or in the state document, that number is registered
\* with direction 'out', before the step and after it
C11_PinStateChangesOnlyForOutPins ==
    [][\A n \in RequestNumbers :
          (EntryChanges(savedState, n) \/ EntryChanges(stateFile, n)) =>
              /\ IsOutPin(n)
              /\ n \in DOMAIN pins'
              /\ pins'[n].meta.direction = "out"]_vars

\* an 'in' pin that has a PinState entry of 0 is seen to go to 1
C11_Witness ==
    /\ event.kind = "input"
    /\ event.value = 1
    /\ pins[event.number].meta.direction = "in"
    /\ event.number \in DOMAIN savedState
    /\ savedState[event.number] = 0
    /\ stateFile = savedState

\* the bodies that pass the validation of the config POST
ValidBodies == {b \in Bodies : b.shape = "pinsArray"}

\* C12: a well-formed config POST whose config-file write fails is answered
\* 500, leaves the process running and the file as it was, and leaves the
\* submitted (sanitized) document as the in-memory config
C12_FailedSaveKeepsNewConfig ==
    [][(event'.kind = "configPost" /\ httpRes' = 500) =>
        \A b \in ValidBodies :
            ConfigPost(b, FALSE) =>
                /\ phase' = "running"
                /\ configFile' = configFile
                /\ config' = [pins |-> SanitizePins(b.pins)]]_vars

C12_Witness ==
    /\ event.kind = "configPost"
    /\ httpRes = 500
    /\ phase = "running"
    /\ config # configFile
    /\ config.pins # <<>>
    /\ configFile.pins # <<>>

\* a rebuild in which a driver call threw has just ended
RebuildHitDriverError ==
    /\ event.kind \in {"startup", "configPost"}
    /\ fault # NoFault

\* the numbers of the PinSpecs of the config other than the one whose driver
\* call threw
OtherPinNumbers ==
    {config.pins[i].number :
        i \in {j \in 1..Len(config.pins) :
                  fault.op \in {"construct", "writeSync", "watch"}
                      => j # fault.index}}

\* C13 as claimed: after a rebuild in which constructing, writing to or
\* releasing one pin's driver threw, the process has not crashed, every
\* other pin of the config is registered and the snapshot was broadcast
C13_RebuildSurvivesDriverError ==
    RebuildHitDriverError =>
        /\ phase = "running"
        /\ OtherPinNumbers \subseteq DOMAIN pins
        /\ ioEmitted = <<InitMessage(config, pins)>>

\* what the code does keep: an error of writeSync, watch, unwatchAll or
\* unexport is caught, all pins of the config are registered and the
\* snapshot is broadcast
C13_CaughtDriverErrorsAreNonFatal ==
    (RebuildHitDriverError /\ fault.op # "construct") =>
        /\ phase = "running"
        /\ DOMAIN pins = ConfigNumbers(config)
        /\ ioEmitted = <<InitMessage(config, pins)>>

\* the result r of a handler whose state-file write failed: the adapter of
\* n reads c, the in-memory PinState maps n to c, the one delta was
\* broadcast, what publishMqtt sends for (n, c) was published, and the
\* state document is as it was
SaveFailureSwallowed(r, n, c) ==
    /\ r.applied
    /\ readSync(r.pins[n].gpio) = c
    /\ n \in DOMAIN r.savedState
    /\ r.savedState[n] = c
    /\ r.emitted = <<[type |-> "pin", number |-> n, value |-> c]>>
    /\ r.published = publishMqtt(n, c)
    /\ mqttClient =>
        r.published = <<[topic |-> <<MQTT_PREFIX, n, "state">>,
                         payload |-> IF c = 1 THEN "ON" ELSE "OFF",
                         retain |-> TRUE]>>
    /\ r.stateFile = stateFile

\* C14: when the state-file write of a UI setPin or MQTT set on an 'out' pin
\* fails, the adapter write and the in-memory PinState update still take
\* effect, the delta is broadcast, the state is published as it is when the
\* write succeeds, and the event ends with the process running and no error
\* answered
C14_StateWriteFailureIsSwallowed ==
    /\ phase = "running" =>
        \A n \in PinNumbers :
            IsOutPin(n) =>
                /\ \A v \in UiValues :
                    /\ SaveFailureSwallowed(setPinHandler(n, v, FALSE), n,
                                            Coerce(v))
                    /\ setPinHandler(n, v, FALSE).published
                           = setPinHandler(n, v, TRUE).published
                /\ mqttClient =>
                    \A p \in Payloads :
                        SaveFailureSwallowed(
                            mqttMessageHandler(SetTopic(n), p, FALSE), n,
                            PayloadValue(p))
    /\ OutputApplied(event) =>
        /\ phase = "running"
        /\ httpRes = 0
        /\ readSync(pins[event.number].gpio) = event.value
        /\ savedState[event.number] = event.value
        /\ ioEmitted = <<[type |-> "pin", number |-> event.number,
                          value |-> event.value]>>
        /\ mqttPublished = publishMqtt(event.number, event.value)

\* a set of 1 whose state-file write failed: the document still lacks the 1
C14_Witness ==
    /\ OutputApplied(event)
    /\ event.value = 1
    /\ mqttClient
    /\ savedState[event.number] = 1
    /\ StateOr0(stateFile, event.number) = 0
    /\ Len(mqttPublished) = 1
    /\ mqttPublished[1].payload = "ON"

\* the topic <prefix>/<number>/set
CommandTopic(n) == <<MQTT_PREFIX, n, "set">>

\* C15 as claimed: a rebuild issues exactly one subscription to
\* <prefix>/<number>/set for each 'out' pin of the config and none for any
\* other pin
C15_SubscribesOncePerOutPin ==
    Rebuilt =>
        /\ Range(mqttSubscribed) = {CommandTopic(n) : n \in OutNumbers(config)}
        /\ Len(mqttSubscribed) = Cardinality(OutNumbers(config))

\* C15 amended: with the MQTT bridge enabled a rebuild issues one
\* subscription per PinSpec of the config, in the order of the document and
\* whatever the direction, so that the topics subscribed by the rebuild are
\* the command topics of all pins of the config; with no MQTT client it
\* issues none
C15_SubscribesOncePerPinSpec ==
    Rebuilt =>
        /\ mqttClient =>
            /\ mqttSubscribed =
                   [i \in 1..Len(config.pins) |->
                       CommandTopic(config.pins[i].number)]
            /\ Range(mqttSubscribed)
                   = {CommandTopic(n) : n \in ConfigNumbers(config)}
            /\ Range(mqttSubscribed) \subseteq subscriptions
        /\ ~mqttClient => mqttSubscribed = <<>>

\* a rebuild with the bridge enabled whose config has an 'in' pin only
C15_Witness ==
    /\ event.kind = "configPost"
    /\ httpRes = 200
    /\ mqttClient
    /\ OutNumbers(config) = {}
    /\ mqttSubscribed = <<CommandTopic(FirstPin)>>

\* the watch callback of an 'in' Gpio object has just run
InputReported(e) == e.kind \in {"input", "orphanInput"}

\* a step keeps the registry: the same numbers, the same meta and the same
\* Gpio objects, of which only the level the line is seen at may differ
RegistryKept ==
    /\ DOMAIN pins' = DOMAIN pins
    /\ \A n \in DOMAIN pins :
        /\ pins'[n].meta = pins[n].meta
        /\ [pins'[n].gpio EXCEPT !.value = pins[n].gpio.value] = pins[n].gpio

\* the frame of an input report: no adapter write, registry and PinState
\* kept, one delta {number, value} broadcast
InputReportFrame ==
    /\ gpioWrites' = <<>>
    /\ RegistryKept
    /\ savedState' = savedState
    /\ stateFile' = stateFile
    /\ config' = config
    /\ ioEmitted' = <<[type |-> "pin", number |-> event'.number,
                       value |-> event'.value]>>

\* the one retained publish of the reported value on the pin's state topic
InputReportPublished ==
    mqttPublished' =
        <<[topic |-> <<MQTT_PREFIX, event'.number, "state">>,
           payload |-> IF event'.value = 1 THEN "ON" ELSE "OFF",
           retain |-> TRUE]>>

\* C16 as claimed: an input report writes through no adapter, leaves the
\* registry and the in-memory and persisted PinState unchanged, broadcasts
\* one delta and makes one MQTT state publish for the pin
C16_InputReportBroadcastsAndPublishes ==
    [][InputReported(event') =>
          /\ InputReportFrame
          /\ InputReportPublished]_vars

\* C16 amended: the one publish is made when the MQTT bridge is enabled;
\* with no MQTT client the broadcast of the delta is the only effect
C16_InputReportPublishesIfBridged ==
    [][InputReported(event') =>
          /\ InputReportFrame
          /\ mqttClient => InputReportPublished
          /\ ~mqttClient => mqttPublished' = <<>>]_vars

\* an input seen to go to 1 with the bridge enabled
C16_Witness ==
    /\ event.kind = "input"
    /\ event.value = 1
    /\ mqttClient
    /\ readSync(pins[event.number].gpio) = 1
    /\ mqttPublished[1].payload = "ON"
    /\ StateOr0(savedState, event.number) = 0

\* a setPin for number n with any value, and an MQTT set for it with any
\* payload, return without effect
OutputIsNoOp(n) ==
    /\ \A v \in UiValues : setPinHandler(n, v, TRUE) = Returned
    /\ \A p \in Payloads : mqttMessageHandler(SetTopic(n), p, TRUE) = Returned

\* C17 as claimed: a config POST leaves the in-memory PinState and the
\* state document as they were; afterwards a setPin or MQTT set for a number
\* that has a PinState entry and is absent from the config is a no-op, and
\* every 'out' pin the POST registered reads the value PinState retained for
\* its number (this holds in Spec, where every file write succeeds)
C17_ConfigReplacementKeepsPinState ==
    [][event'.kind = "configPost" =>
          /\ savedState' = savedState
          /\ stateFile' = stateFile
          /\ \A n \in DOMAIN savedState :
                /\ n \notin ConfigNumbers(config') => OutputIsNoOp(n)'
                /\ (httpRes' = 200 /\ IsOutPin(n)') =>
                       readSync(pins'[n].gpio) = savedState[n]]_vars

\* C18 as claimed: the only Gpio objects constructed and not yet released
\* are the ones the registry holds (none once the process has exited)
C18_OnlyRegistryAdaptersUnreleased ==
    phase \in {"running", "exited"} => orphans = {}

\* the payload publishMqtt sends for a level
StatePayload(level) == IF level = 1 THEN "ON" ELSE "OFF"

C20_UiViewAgreesWithServer ==
    (phase = "running" /\ uiView.connected) =>
        /\ uiView.config = config
        /\ \A n \in DOMAIN pins :
            /\ n \in DOMAIN uiView.state
            /\ uiView.state[n] = readSync(pins[n].gpio)

====
